---- MODULE Spec2Model ----
(***************************************************************************)
(* Reading tracker firmware (ESP32 WROOM32D, deep-sleep variant):          *)
(* library of books keyed by NFC uid, reading-session state machine,       *)
(* adaptive pomodoro timer, deep-sleep entry and wake-up.                  *)
(*                                                                         *)
(* Source: src/bookstand v3/WROOM32Ddeepsleepmode/WROOM32Ddeepsleepmode.ino*)
(*                                                                         *)
(* Time is in milliseconds as returned by millis().  Within one pass of    *)
(* loop() every call of millis() is taken to return the value read into    *)
(* the local `now`; time passes between passes of loop().  Values of type  *)
(* float are modelled by exact rationals; the optional wake-up button is   *)
(* not fitted (its pin always reads HIGH).  Display drawing and the buzzer *)
(* are recorded only as events.                                            *)
(***************************************************************************)
EXTENDS Integers, Sequences, FiniteSets, TLC

\* ---------------------------------------------------------------- constants
MAX_BOOKS == 10
lightThreshold == 1000
bookmarkThreshold == 200
STARTUP_GRACE_PERIOD == 5000
SLEEP_CHECK_COUNT == 2
SLEEP_CHECK_INTERVAL == 2000
IDLE_SLEEP_TIMEOUT == 30000
defaultPomodoroMin == 25
restDuration == 5 * 60 * 1000
NFC_CHECK_INTERVAL == 1000
NFC_DISPLAY_TIMEOUT == 10000
MIN_SESSION_MILLIS == 5 * 60 * 1000
MIN_POMODORO_MILLIS == 5 * 60 * 1000
MAX_POMODORO_MILLIS == 60 * 60 * 1000

\* ------------------------------------------------------------------- bounds
\* Length of a behaviour: passes of loop(), plus ChangeCost for every event
\* of the environment (light changes, tag placed or removed, wake-up).
MaxEffort == 24
ChangeCost == 2 * 3
\* calls of saveAdaptivePomodoro explored by TimerSpec
MaxAdjust == 3
\* session durations passed to saveAdaptivePomodoro by TimerSpec
SessionDurations == {0, 299999, 300000, 1000000, 1500000, 1800000, 3600000,
                     7200000}
\* FineSpec: passes and environment changes, and the time between passes
MaxFineTicks == 6
MaxFineChanges == 1
\* passes of loop() half a second apart and a little more, as delay(500)
\* makes them: two of them fit inside NFC_CHECK_INTERVAL
MaxPollTicks == 5
MaxPollChanges == 1
PollDurations == {500, 700}
FineDurations == {1500, 2500}
\* the clock of LiveSpec and the fold of its session counts
LiveHorizon == 2 * IDLE_SLEEP_TIMEOUT
LiveCountCap == 2
\* time between two passes in LiveSpec
LiveDurations == {2500, 30000, 31000}
\* light samples of LiveSpec: dark enough to sleep, and too dim to read
LiveLightSamples == {100, 500}
\* wake-up causes the chip can report, and the pins of an EXT1 wake-up
WakeupCauses == {"UNDEFINED", "EXT0", "EXT1", "TIMER", "TOUCHPAD", "ULP",
                 "GPIO", "UART"}
Ext1Pins == {2, 26, 27}

\* ------------------------------------------------------------- environment
\* elapsed time between two passes of loop()
TickDurations == {30000, 31000}
\* ADC readings of the light sensor: dark, dim, bright
LightSamples == {100, 500, 2000}
NoTag == "none"
\* uids the reader can report
TagInputs == {"u01", "u10"}
\* time spent in setup() before the first pass of loop()
SetupMillis == 1000 + 500

BookIdx == 0 .. (MAX_BOOKS - 1)

\* ------------------------------------------------------------------- state
VARIABLES
  books, bookPrefs, prefs,
  currentBookIndex, currentBookUID, bookChanged, lastUID,
  nfcInitialized, oledInitialized, i2cBusy, isShowingNFC,
  nfcDisplayStartTime, lastActivityTime,
  isReading, isPaused, inRest,
  sessionStartMillis, accumulatedSessionMillis, restStartMillis,
  totalReadingSeconds,
  adaptivePomodoroMillis, adaptiveTotalSessionTime, adaptiveSessionCount,
  systemStartTime, lowLightCount, lastCheck, lastNFCCheck,
  now, power, wireActive, wakeSources, wakeup_cause, ext1Status, wakeReason,
  events, ldr, tagOnReader, ticks, envChanges, readingWall, adjustCalls,
  sessionArg

vars == << books, bookPrefs, prefs,
  currentBookIndex, currentBookUID, bookChanged, lastUID,
  nfcInitialized, oledInitialized, i2cBusy, isShowingNFC,
  nfcDisplayStartTime, lastActivityTime,
  isReading, isPaused, inRest,
  sessionStartMillis, accumulatedSessionMillis, restStartMillis,
  totalReadingSeconds,
  adaptivePomodoroMillis, adaptiveTotalSessionTime, adaptiveSessionCount,
  systemStartTime, lowLightCount, lastCheck, lastNFCCheck,
  now, power, wireActive, wakeSources, wakeup_cause, ext1Status, wakeReason,
  events, ldr, tagOnReader, ticks, envChanges, readingWall, adjustCalls,
  sessionArg >>

\* The program state as one record, so that a handler is a function from
\* state to state and a call is an application.
Cur == [ books |-> books, bookPrefs |-> bookPrefs, prefs |-> prefs,
  currentBookIndex |-> currentBookIndex, currentBookUID |-> currentBookUID,
  bookChanged |-> bookChanged, lastUID |-> lastUID,
  nfcInitialized |-> nfcInitialized, oledInitialized |-> oledInitialized,
  i2cBusy |-> i2cBusy, isShowingNFC |-> isShowingNFC,
  nfcDisplayStartTime |-> nfcDisplayStartTime,
  lastActivityTime |-> lastActivityTime,
  isReading |-> isReading, isPaused |-> isPaused, inRest |-> inRest,
  sessionStartMillis |-> sessionStartMillis,
  accumulatedSessionMillis |-> accumulatedSessionMillis,
  restStartMillis |-> restStartMillis,
  totalReadingSeconds |-> totalReadingSeconds,
  adaptivePomodoroMillis |-> adaptivePomodoroMillis,
  adaptiveTotalSessionTime |-> adaptiveTotalSessionTime,
  adaptiveSessionCount |-> adaptiveSessionCount,
  systemStartTime |-> systemStartTime, lowLightCount |-> lowLightCount,
  lastCheck |-> lastCheck, lastNFCCheck |-> lastNFCCheck,
  now |-> now, power |-> power, wireActive |-> wireActive,
  wakeSources |-> wakeSources, wakeup_cause |-> wakeup_cause,
  ext1Status |-> ext1Status,
  wakeReason |-> wakeReason, events |-> events ]

Install(s) ==
  /\ books' = s.books /\ bookPrefs' = s.bookPrefs /\ prefs' = s.prefs
  /\ currentBookIndex' = s.currentBookIndex
  /\ currentBookUID' = s.currentBookUID
  /\ bookChanged' = s.bookChanged /\ lastUID' = s.lastUID
  /\ nfcInitialized' = s.nfcInitialized
  /\ oledInitialized' = s.oledInitialized
  /\ i2cBusy' = s.i2cBusy /\ isShowingNFC' = s.isShowingNFC
  /\ nfcDisplayStartTime' = s.nfcDisplayStartTime
  /\ lastActivityTime' = s.lastActivityTime
  /\ isReading' = s.isReading /\ isPaused' = s.isPaused /\ inRest' = s.inRest
  /\ sessionStartMillis' = s.sessionStartMillis
  /\ accumulatedSessionMillis' = s.accumulatedSessionMillis
  /\ restStartMillis' = s.restStartMillis
  /\ totalReadingSeconds' = s.totalReadingSeconds
  /\ adaptivePomodoroMillis' = s.adaptivePomodoroMillis
  /\ adaptiveTotalSessionTime' = s.adaptiveTotalSessionTime
  /\ adaptiveSessionCount' = s.adaptiveSessionCount
  /\ systemStartTime' = s.systemStartTime
  /\ lowLightCount' = s.lowLightCount
  /\ lastCheck' = s.lastCheck /\ lastNFCCheck' = s.lastNFCCheck
  /\ now' = s.now /\ power' = s.power /\ wireActive' = s.wireActive
  /\ wakeSources' = s.wakeSources /\ wakeup_cause' = s.wakeup_cause
  /\ ext1Status' = s.ext1Status
  /\ wakeReason' = s.wakeReason /\ events' = s.events

\* An event of the current pass: the operation and the bus flag at that point.
Ev(s, op) == [s EXCEPT !.events = Append(@, [op |-> op, busy |-> s.i2cBusy])]

\* ----------------------------------------------------------------- storage
\* Preferences: a key is present once it was put; get returns the default
\* for a key that is absent.
PrefGet(p, key, default) == IF key \in DOMAIN p THEN p[key] ELSE default

PrefPut(p, key, value) ==
  [k \in (DOMAIN p) \cup {key} |-> IF k = key THEN value ELSE p[k]]

ZeroAvg == [num |-> 0, den |-> 1]

\* a slot of the "books" namespace none of whose keys was ever put
NoKey == [present |-> FALSE, uid |-> "", name |-> "", total |-> 0, last |-> 0,
          sessions |-> 0, pomodoros |-> 0, avg |-> ZeroAvg]

Book == [uid |-> "", name |-> "", totalSeconds |-> 0, lastRead |-> 0,
         sessionCount |-> 0, pomodoroCount |-> 0,
         avgSessionMinutes |-> ZeroAvg, isActive |-> FALSE]

\* "Book-" followed by the last four characters of the uid; the uids of the
\* model are their own last four characters.
generateBookName(uid) == << "Book-", uid >>

\* ------------------------------------------------------- library functions
initializeBooks(bp) ==
  LET bookCount == bp.count
  IN [i \in BookIdx |->
        IF i < bookCount /\ bp.slot[i].present
        THEN [uid |-> bp.slot[i].uid, name |-> bp.slot[i].name,
              totalSeconds |-> bp.slot[i].total,
              lastRead |-> bp.slot[i].last,
              sessionCount |-> bp.slot[i].sessions,
              pomodoroCount |-> bp.slot[i].pomodoros,
              avgSessionMinutes |-> bp.slot[i].avg, isActive |-> TRUE]
        ELSE Book]

\* findBookByUID that finds nothing
findBookByUIDNever(bks, uid) == -1

findBookByUID(bks, uid) ==
  LET hits == {i \in BookIdx : bks[i].isActive /\ bks[i].uid = uid}
  IN IF hits = {} THEN -1
     ELSE CHOOSE i \in hits : \A j \in hits : i <= j

saveBookData(s, index) ==
  IF index < 0 \/ index >= MAX_BOOKS \/ ~s.books[index].isActive THEN s
  ELSE LET b == s.books[index]
       IN Ev([s EXCEPT !.bookPrefs.slot[index] =
                 [present |-> TRUE, uid |-> b.uid, name |-> b.name,
                  total |-> b.totalSeconds, last |-> b.lastRead,
                  sessions |-> b.sessionCount, pomodoros |-> b.pomodoroCount,
                  avg |-> b.avgSessionMinutes]],
             "saveBookData")

\* addNewBook that reuses slot 0 when no slot is free
addNewBookEvicting(s, uid) ==
  LET free == {i \in BookIdx : ~s.books[i].isActive}
      emptySlot == IF free = {} THEN 0
                   ELSE CHOOSE i \in free : \A j \in free : i <= j
      s1 == [s EXCEPT !.books[emptySlot] =
               [uid |-> uid, name |-> generateBookName(uid),
                totalSeconds |-> 0, lastRead |-> s.now \div 1000,
                sessionCount |-> 0, pomodoroCount |-> 0,
                avgSessionMinutes |-> ZeroAvg, isActive |-> TRUE]]
      s2 == saveBookData(s1, emptySlot)
      activeCount == Cardinality({i \in BookIdx : s2.books[i].isActive})
  IN [s |-> Ev([s2 EXCEPT !.bookPrefs.count = activeCount], "addNewBook"),
      ret |-> emptySlot]

\* addNewBook that does not write the number of books
addNewBookNoCount(s, uid) ==
  LET free == {i \in BookIdx : ~s.books[i].isActive}
  IN IF free = {} THEN [s |-> Ev(s, "libraryFull"), ret |-> -1]
     ELSE LET emptySlot == CHOOSE i \in free : \A j \in free : i <= j
              s1 == [s EXCEPT !.books[emptySlot] =
                       [uid |-> uid, name |-> generateBookName(uid),
                        totalSeconds |-> 0, lastRead |-> s.now \div 1000,
                        sessionCount |-> 0, pomodoroCount |-> 0,
                        avgSessionMinutes |-> ZeroAvg, isActive |-> TRUE]]
          IN [s |-> Ev(saveBookData(s1, emptySlot), "addNewBook"),
              ret |-> emptySlot]

\* addNewBook that takes the last free slot
addNewBookLastFree(s, uid) ==
  LET free == {i \in BookIdx : ~s.books[i].isActive}
  IN IF free = {} THEN [s |-> Ev(s, "libraryFull"), ret |-> -1]
     ELSE LET emptySlot == CHOOSE i \in free : \A j \in free : i >= j
              s1 == [s EXCEPT !.books[emptySlot] =
                       [uid |-> uid, name |-> generateBookName(uid),
                        totalSeconds |-> 0, lastRead |-> s.now \div 1000,
                        sessionCount |-> 0, pomodoroCount |-> 0,
                        avgSessionMinutes |-> ZeroAvg, isActive |-> TRUE]]
              s2 == saveBookData(s1, emptySlot)
              activeCount == Cardinality({i \in BookIdx : s2.books[i].isActive})
          IN [s |-> Ev([s2 EXCEPT !.bookPrefs.count = activeCount], "addNewBook"),
              ret |-> emptySlot]

addNewBook(s, uid) ==
  LET free == {i \in BookIdx : ~s.books[i].isActive}
  IN IF free = {} THEN [s |-> Ev(s, "libraryFull"), ret |-> -1]
     ELSE LET emptySlot == CHOOSE i \in free : \A j \in free : i <= j
              s1 == [s EXCEPT !.books[emptySlot] =
                       [uid |-> uid, name |-> generateBookName(uid),
                        totalSeconds |-> 0, lastRead |-> s.now \div 1000,
                        sessionCount |-> 0, pomodoroCount |-> 0,
                        avgSessionMinutes |-> ZeroAvg, isActive |-> TRUE]]
              s2 == saveBookData(s1, emptySlot)
              activeCount == Cardinality({i \in BookIdx : s2.books[i].isActive})
          IN [s |-> Ev([s2 EXCEPT !.bookPrefs.count = activeCount], "addNewBook"),
              ret |-> emptySlot]

saveCurrentBookSession(s) ==
  IF s.currentBookIndex < 0 \/ s.currentBookIndex >= MAX_BOOKS THEN s
  ELSE LET sessionSeconds == s.accumulatedSessionMillis \div 1000
           i == s.currentBookIndex
       IN IF sessionSeconds > 0
          THEN LET total == s.books[i].totalSeconds + sessionSeconds
                   count == s.books[i].sessionCount + 1
               IN saveBookData(
                    Ev([s EXCEPT !.books[i].totalSeconds = total,
                                 !.books[i].sessionCount = count,
                                 !.books[i].lastRead = s.now \div 1000,
                                 !.books[i].avgSessionMinutes =
                                    [num |-> total, den |-> 60 * count]],
                       "commitSession"),
                    i)
          ELSE s

switchBook(s, uid) ==
  LET s1 == IF s.currentBookIndex >= 0 THEN saveCurrentBookSession(s) ELSE s
      found == findBookByUID(s1.books, uid)
      added == addNewBook(s1, uid)
      bookIndex == IF found = -1 THEN added.ret ELSE found
      s2 == IF found = -1 THEN added.s ELSE s1
  IN IF bookIndex = -1
     THEN \* library full: the error screen is drawn, nothing else changes
          IF s2.oledInitialized THEN Ev(s2, "displayLibraryFull") ELSE s2
     ELSE LET s3 == [s2 EXCEPT !.currentBookIndex = bookIndex,
                               !.currentBookUID = uid,
                               !.bookChanged = TRUE,
                               !.accumulatedSessionMillis = 0,
                               !.books[bookIndex].sessionCount = @ + 1]
              \* displayBookInfo
              s4 == IF s3.oledInitialized
                    THEN Ev([s3 EXCEPT !.isShowingNFC = TRUE,
                                       !.nfcDisplayStartTime = s3.now],
                            "displayBookInfo")
                    ELSE s3
          IN Ev([s4 EXCEPT !.lastActivityTime = s4.now], "switchBook")

\* showNFCUIDAndSave that takes the tag as the current book before the lookup
showNFCUIDAndSaveAsCurrent(s, uid) ==
  switchBook([s EXCEPT !.lastUID = uid, !.currentBookUID = uid,
                       !.prefs = PrefPut(@, "lastUID", uid)], uid)

showNFCUIDAndSave(s, uid) ==
  switchBook([s EXCEPT !.lastUID = uid,
                       !.prefs = PrefPut(@, "lastUID", uid)], uid)

\* ----------------------------------------------------------- adaptive timer
\* constrain without its upper bound
constrainFromBelow(x, lo, hi) == IF x < lo THEN lo ELSE x

constrain(x, lo, hi) == IF x < lo THEN lo ELSE IF x > hi THEN hi ELSE x

\* The growth rates are floats: 1.05f and 1.02f are these multiples of 2^-23.
SUCCESS_GROWTH == 8808038
PARTIAL_GROWTH == 8556380

\* (unsigned long)(n * g) for an unsigned long n below 2^22 and the float
\* g = M / 2^23: n converts exactly, the product is rounded to the nearest
\* float (24 significant bits, ties to even) and the cast truncates.
\* The spacing of the floats from I up to the next power of two, in units
\* of 2^-23.
floatSpacing(I) == 2 ^ (CHOOSE e \in 0 .. 22 : 2 ^ e <= I /\ I < 2 ^ (e + 1))

\* I + F / 2^23 rounded to a multiple of U / 2^23, then truncated.
floatToULong(I, F, U) ==
  IF 2 * (F % U) > U \/ (2 * (F % U) = U /\ (F \div U) % 2 = 1)
  THEN IF (F \div U + 1) * U = 8388608 THEN I + 1 ELSE I
  ELSE I

\* H + R / 2^23 with R below 2^25
floatCarry(H, R) ==
  floatToULong(H + R \div 8388608, R % 8388608,
               floatSpacing(H + R \div 8388608))

\* H + A / 2^12 + B / 2^11 + C / 2^23
floatSum(H, A, B, C) ==
  floatCarry(H + A \div 4096 + B \div 2048,
             (A % 4096) * 2048 + (B % 2048) * 4096 + C)

\* the exact product (n1 * 2^11 + n0) * (m1 * 2^12 + m0) / 2^23
floatProduct(n1, n0, m1, m0) == floatSum(n1 * m1, n1 * m0, n0 * m1, n0 * m0)

mulFloat(n, M) ==
  floatProduct(n \div 2048, n % 2048, M \div 4096, M % 4096)

\* An unsigned long (32 bits) as two 16-bit halves: the lifetime total of
\* session milliseconds is the one counter of the program that can pass 2^31.
ulong(n) == [hi |-> n \div 65536, lo |-> n % 65536]

\* t += n in 32 bits, for n below 2^24: the carry out of the high half is
\* lost
ulongPlus(t, n) ==
  [hi |-> (t.hi + (t.lo + n) \div 65536) % 65536, lo |-> (t.lo + n) % 65536]

\* t / c by long division, for 0 < c < 2^15
ulongQuotient(t, c) ==
  (t.hi \div c) * 65536 + ((t.hi % c) * 65536 + t.lo) \div c

\* The tiers of saveAdaptivePomodoro, the persistence included, for the
\* lifetime values total and count and the average taken from them.
adaptTargetFrom(s, sessionMillis, total, count, historicalAverage) ==
    LET target == s.adaptivePomodoroMillis
        \* completionRate = sessionMillis / target, compared with 1.0, 1.2,
        \* 0.8 and 0.6: for a target of at most 60 minutes the float quotient
        \* falls on the same side of each of them as the exact quotient
        \* LEARNING_RATE * goal + (1 - LEARNING_RATE) * target, taken in exact
        \* arithmetic: the float sum differs from it by less than 1 ms
        blend(goal) == (15 * goal + 85 * target) \div 100
        raw == IF sessionMillis >= target
               THEN IF 5 * sessionMillis >= 6 * target
                    THEN mulFloat(target, SUCCESS_GROWTH)
                    ELSE mulFloat(target, PARTIAL_GROWTH)
               ELSE IF 5 * sessionMillis >= 4 * target
                    THEN blend(historicalAverage)
               ELSE IF 5 * sessionMillis >= 3 * target
                    THEN blend((historicalAverage * 8) \div 10)
               ELSE blend((historicalAverage * 7) \div 10)
        s1 == [s EXCEPT !.adaptiveTotalSessionTime = total,
                        !.adaptiveSessionCount = count]
        s2 == IF sessionMillis >= target /\ s1.currentBookIndex >= 0
              THEN saveBookData(
                     Ev([s1 EXCEPT
                           !.books[s1.currentBookIndex].pomodoroCount = @ + 1],
                        "pomodoroCount++"),
                     s1.currentBookIndex)
              ELSE s1
        new == constrain(raw, MIN_POMODORO_MILLIS, MAX_POMODORO_MILLIS)
    IN Ev([s2 EXCEPT !.adaptivePomodoroMillis = new,
                     !.prefs = PrefPut(PrefPut(PrefPut(@, "pomodoro", new),
                                               "adaptTime", total),
                                       "adaptCount", count)],
          "adjustTimer")

\* adaptTarget with the average taken before the session is added
adaptTargetStaleAverage(s, sessionMillis) ==
  adaptTargetFrom(s, sessionMillis,
                  ulongPlus(s.adaptiveTotalSessionTime, sessionMillis),
                  s.adaptiveSessionCount + 1,
                  IF s.adaptiveSessionCount = 0 THEN 0
                  ELSE ulongQuotient(s.adaptiveTotalSessionTime,
                                     s.adaptiveSessionCount))

\* The body of saveAdaptivePomodoro after its filter of short sessions: the
\* lifetime values are updated first, the average is taken from the new ones.
adaptTarget(s, sessionMillis) ==
  adaptTargetFrom(s, sessionMillis,
                  ulongPlus(s.adaptiveTotalSessionTime, sessionMillis),
                  s.adaptiveSessionCount + 1,
                  ulongQuotient(
                    ulongPlus(s.adaptiveTotalSessionTime, sessionMillis),
                    s.adaptiveSessionCount + 1))

\* saveAdaptivePomodoro without its filter of short sessions
saveAdaptivePomodoroUnfiltered(s, sessionMillis) ==
  adaptTarget(s, sessionMillis)

saveAdaptivePomodoro(s, sessionMillis) ==
  IF sessionMillis < MIN_SESSION_MILLIS THEN s
  ELSE adaptTarget(s, sessionMillis)

\* ------------------------------------------------------------- sleep, wake
\* getWakeupReason with the light and timer answers exchanged
getWakeupReasonSwapped(cause, ext1Pins) ==
  CASE cause = "EXT0" -> "WAKEUP_TIMER"
    [] cause = "TIMER" -> "WAKEUP_LIGHT"
    [] OTHER -> "WAKEUP_UNKNOWN"

getWakeupReason(cause, ext1Pins) ==
  CASE cause = "EXT0" -> "WAKEUP_LIGHT"
    [] cause = "EXT1" -> IF 26 \in ext1Pins THEN "WAKEUP_LIGHT"
                         ELSE IF 2 \in ext1Pins THEN "WAKEUP_BUTTON"
                         ELSE "WAKEUP_UNKNOWN"
    [] cause = "TIMER" -> "WAKEUP_TIMER"
    [] OTHER -> "WAKEUP_UNKNOWN"

\* configureWakeupSources that also arms the EXT1 wake of the button pin
configureWakeupSourcesWithButton(s) ==
  Ev([s EXCEPT !.wakeSources = {"EXT0", "EXT1", "TIMER"}],
     "configureWakeupSources")

\* configureWakeupSources that arms the light pin only
configureWakeupSourcesLightOnly(s) ==
  Ev([s EXCEPT !.wakeSources = {"EXT0"}], "configureWakeupSources")

configureWakeupSources(s) ==
  Ev([s EXCEPT !.wakeSources = {"EXT0", "TIMER"}], "configureWakeupSources")

shutdownAllHardware(s) ==
  LET s1 == IF s.oledInitialized THEN Ev(s, "displayOff") ELSE s
  IN Ev([s1 EXCEPT !.wireActive = FALSE], "Wire.end")

\* the session at sleep without its running segment
sleepSessionMillisAccumulatedOnly(s) == s.accumulatedSessionMillis

\* The session in progress when sleep is entered.
sleepSessionMillis(s) ==
  s.accumulatedSessionMillis +
  (IF s.isReading THEN s.now - s.sessionStartMillis ELSE 0)

\* enterSmartSleep that returns instead of suspending when there is no display
enterSmartSleepNeedsDisplay(s) ==
  LET i == s.currentBookIndex
      sessionMillis == sleepSessionMillis(s)
      s1 == IF i >= 0 /\ (s.isReading \/ s.isPaused)
            THEN LET a == saveBookData(
                            Ev([s EXCEPT !.books[i].totalSeconds =
                                            @ + sessionMillis \div 1000,
                                         !.books[i].lastRead = s.now \div 1000],
                               "commitAtSleep"),
                            i)
                     b == saveAdaptivePomodoro(a, sessionMillis)
                     secs == b.totalReadingSeconds + sessionMillis \div 1000
                 IN [b EXCEPT !.totalReadingSeconds = secs,
                              !.prefs = PrefPut(@, "totalSecs", secs)]
            ELSE s
      s2 == [s1 EXCEPT !.prefs = PrefPut(@, "lastBookIdx", s1.currentBookIndex)]
      s3 == IF s2.oledInitialized /\ ~s2.i2cBusy
            THEN Ev(s2, "displaySleep") ELSE s2
      s4 == configureWakeupSources(shutdownAllHardware(s3))
  IN IF s.oledInitialized
     THEN Ev([s4 EXCEPT !.power = "deepSleep"], "esp_deep_sleep_start")
     ELSE s4

enterSmartSleep(s) ==
  LET i == s.currentBookIndex
      sessionMillis == sleepSessionMillis(s)
      s1 == IF i >= 0 /\ (s.isReading \/ s.isPaused)
            THEN LET a == saveBookData(
                            Ev([s EXCEPT !.books[i].totalSeconds =
                                            @ + sessionMillis \div 1000,
                                         !.books[i].lastRead = s.now \div 1000],
                               "commitAtSleep"),
                            i)
                     b == saveAdaptivePomodoro(a, sessionMillis)
                     secs == b.totalReadingSeconds + sessionMillis \div 1000
                 IN [b EXCEPT !.totalReadingSeconds = secs,
                              !.prefs = PrefPut(@, "totalSecs", secs)]
            ELSE s
      s2 == [s1 EXCEPT !.prefs = PrefPut(@, "lastBookIdx", s1.currentBookIndex)]
      s3 == IF s2.oledInitialized /\ ~s2.i2cBusy
            THEN Ev(s2, "displaySleep") ELSE s2
      s4 == configureWakeupSources(shutdownAllHardware(s3))
  IN Ev([s4 EXCEPT !.power = "deepSleep"], "esp_deep_sleep_start")

\* Result: the state after the call and the returned decision.
\* shouldEnterSleep that keeps its count at a check in sufficient light
shouldEnterSleepNoReset(s, lightValue) ==
  LET s0 == IF s.systemStartTime = -1
            THEN [s EXCEPT !.systemStartTime = s.now] ELSE s
  IN IF s0.now - s0.systemStartTime < STARTUP_GRACE_PERIOD
     THEN [s |-> s0, ret |-> FALSE]
     ELSE IF s0.now - s0.lastActivityTime > IDLE_SLEEP_TIMEOUT
     THEN [s |-> Ev(s0, "idleTimeout"), ret |-> TRUE]
     ELSE IF s0.isShowingNFC \/ s0.isReading \/ s0.inRest
     THEN [s |-> [s0 EXCEPT !.lowLightCount = 0,
                            !.lastActivityTime = s0.now],
           ret |-> FALSE]
     ELSE LET s1 == IF s0.now - s0.lastCheck > SLEEP_CHECK_INTERVAL
                    THEN IF lightValue < bookmarkThreshold
                         THEN Ev([s0 EXCEPT !.lastCheck = s0.now,
                                            !.lowLightCount = @ + 1],
                                 "lowLight")
                         ELSE [s0 EXCEPT !.lastCheck = s0.now,
                                         !.lastActivityTime = s0.now]
                    ELSE s0
          IN IF s1.lowLightCount >= SLEEP_CHECK_COUNT
             THEN [s |-> Ev(s1, "prolongedLowLight"), ret |-> TRUE]
             ELSE [s |-> s1, ret |-> FALSE]

shouldEnterSleep(s, lightValue) ==
  LET s0 == IF s.systemStartTime = -1
            THEN [s EXCEPT !.systemStartTime = s.now] ELSE s
  IN IF s0.now - s0.systemStartTime < STARTUP_GRACE_PERIOD
     THEN [s |-> s0, ret |-> FALSE]
     ELSE IF s0.now - s0.lastActivityTime > IDLE_SLEEP_TIMEOUT
     THEN [s |-> Ev(s0, "idleTimeout"), ret |-> TRUE]
     ELSE IF s0.isShowingNFC \/ s0.isReading \/ s0.inRest
     THEN [s |-> [s0 EXCEPT !.lowLightCount = 0,
                            !.lastActivityTime = s0.now],
           ret |-> FALSE]
     ELSE LET s1 == IF s0.now - s0.lastCheck > SLEEP_CHECK_INTERVAL
                    THEN IF lightValue < bookmarkThreshold
                         THEN Ev([s0 EXCEPT !.lastCheck = s0.now,
                                            !.lowLightCount = @ + 1],
                                 "lowLight")
                         ELSE [s0 EXCEPT !.lastCheck = s0.now,
                                         !.lowLightCount = 0,
                                         !.lastActivityTime = s0.now]
                    ELSE s0
          IN IF s1.lowLightCount >= SLEEP_CHECK_COUNT
             THEN [s |-> Ev(s1, "prolongedLowLight"), ret |-> TRUE]
             ELSE [s |-> s1, ret |-> FALSE]


\* -------------------------------------------------------------------- loop
\* NFC detection that polls again as soon as NFC_CHECK_INTERVAL has passed
loopNFCAtInterval(s, tag) ==
  IF s.nfcInitialized /\ ~s.i2cBusy /\ s.now - s.lastNFCCheck >= NFC_CHECK_INTERVAL
  THEN LET s1 == Ev([s EXCEPT !.lastNFCCheck = s.now, !.i2cBusy = TRUE],
                    "readPassiveTargetID")
       IN IF tag # NoTag
          THEN LET s2 == IF tag # s1.currentBookUID \/ ~s1.isShowingNFC
                         THEN LET a == showNFCUIDAndSave(
                                         [s1 EXCEPT !.isShowingNFC = TRUE,
                                                    !.nfcDisplayStartTime = s1.now],
                                         tag)
                              IN [a EXCEPT !.lastActivityTime = a.now]
                         ELSE s1
               IN [s2 EXCEPT !.i2cBusy = FALSE]
          ELSE [s1 EXCEPT !.isShowingNFC = FALSE, !.i2cBusy = FALSE]
  ELSE s

\* NFC detection that clears the busy flag only when a tag answered
loopNFCBusyWithoutTag(s, tag) ==
  IF s.nfcInitialized /\ ~s.i2cBusy /\ s.now - s.lastNFCCheck > NFC_CHECK_INTERVAL
  THEN LET s1 == Ev([s EXCEPT !.lastNFCCheck = s.now, !.i2cBusy = TRUE],
                    "readPassiveTargetID")
       IN IF tag # NoTag
          THEN LET s2 == IF tag # s1.currentBookUID \/ ~s1.isShowingNFC
                         THEN LET a == showNFCUIDAndSave(
                                         [s1 EXCEPT !.isShowingNFC = TRUE,
                                                    !.nfcDisplayStartTime = s1.now],
                                         tag)
                              IN [a EXCEPT !.lastActivityTime = a.now]
                         ELSE s1
               IN [s2 EXCEPT !.i2cBusy = FALSE]
          ELSE [s1 EXCEPT !.isShowingNFC = FALSE]
  ELSE s

\* NFC detection: at most one poll per NFC_CHECK_INTERVAL, under the bus flag.
loopNFC(s, tag) ==
  IF s.nfcInitialized /\ ~s.i2cBusy /\ s.now - s.lastNFCCheck > NFC_CHECK_INTERVAL
  THEN LET s1 == Ev([s EXCEPT !.lastNFCCheck = s.now, !.i2cBusy = TRUE],
                    "readPassiveTargetID")
       IN IF tag # NoTag
          THEN LET s2 == IF tag # s1.currentBookUID \/ ~s1.isShowingNFC
                         THEN LET a == showNFCUIDAndSave(
                                         [s1 EXCEPT !.isShowingNFC = TRUE,
                                                    !.nfcDisplayStartTime = s1.now],
                                         tag)
                              IN [a EXCEPT !.lastActivityTime = a.now]
                         ELSE s1
               IN [s2 EXCEPT !.i2cBusy = FALSE]
          ELSE [s1 EXCEPT !.isShowingNFC = FALSE, !.i2cBusy = FALSE]
  ELSE s

\* NFC display timeout.  ret: loop() returns here, skipping the rest.
loopNFCDisplay(s) ==
  IF s.isShowingNFC
  THEN IF s.now - s.nfcDisplayStartTime > NFC_DISPLAY_TIMEOUT
       THEN [s |-> [s EXCEPT !.isShowingNFC = FALSE, !.bookChanged = FALSE],
             ret |-> FALSE]
       ELSE [s |-> s, ret |-> TRUE]
  ELSE [s |-> s, ret |-> FALSE]

\* Pomodoro completion inside the reading display.
pomodoroComplete(s, currentSessionMillis) ==
  LET i == s.currentBookIndex
      s1 == Ev([s EXCEPT !.books[i].pomodoroCount = @ + 1], "pomodoroCount++")
      s2 == saveCurrentBookSession(s1)
      s3 == saveAdaptivePomodoro(s2, currentSessionMillis)
      s4 == Ev(s3, "displayPomodoroDone")
  IN Ev([s4 EXCEPT !.isReading = FALSE, !.inRest = TRUE,
                   !.restStartMillis = s4.now,
                   !.accumulatedSessionMillis = 0,
                   !.lastActivityTime = s4.now],
        "enterRest")

\* Reading is paused: the running segment goes to the accumulated duration.
pauseReading(s) ==
  Ev([s EXCEPT !.accumulatedSessionMillis = @ + s.now - s.sessionStartMillis,
               !.isReading = FALSE, !.isPaused = TRUE],
     "pause")

\* startReading that leaves isPaused as it was
startReadingKeepsPaused(s) ==
  Ev([s EXCEPT !.isReading = TRUE,
               !.sessionStartMillis = s.now,
               !.lastActivityTime = s.now],
     "startReading")

\* startReading that forgets the accumulated duration
startReadingFromZero(s) ==
  Ev([s EXCEPT !.isReading = TRUE, !.isPaused = FALSE,
               !.sessionStartMillis = s.now,
               !.accumulatedSessionMillis = 0,
               !.lastActivityTime = s.now],
     "startReading")

\* Reading starts or resumes: a new segment starts now.
startReading(s) ==
  Ev([s EXCEPT !.isReading = TRUE, !.isPaused = FALSE,
               !.sessionStartMillis = s.now,
               !.lastActivityTime = s.now],
     "startReading")

\* Light threshold handling and reading state.
loopLight(s, lightValue) ==
  IF lightValue < lightThreshold
  THEN LET s1 == IF s.isReading THEN pauseReading(s) ELSE s
       IN IF ~s1.isShowingNFC /\ s1.oledInitialized /\ ~s1.i2cBusy
          THEN Ev(s1, "drawTrendGraph") ELSE s1
  ELSE LET s1 == IF ~s.isReading /\ ~s.inRest /\ s.currentBookIndex >= 0
                 THEN startReading(s)
                 ELSE IF ~s.isReading /\ ~s.inRest /\ s.currentBookIndex < 0
                         /\ s.oledInitialized /\ ~s.isShowingNFC
                 THEN Ev(s, "displayPlaceCard")
                 ELSE s
       IN IF s1.isReading /\ s1.oledInitialized /\ ~s1.i2cBusy /\ ~s1.isShowingNFC
          THEN LET currentSessionMillis ==
                     s1.now - s1.sessionStartMillis + s1.accumulatedSessionMillis
                   s2 == Ev(s1, "displayReading")
               IN IF currentSessionMillis >= s2.adaptivePomodoroMillis
                  THEN pomodoroComplete(s2, currentSessionMillis)
                  ELSE s2
          ELSE s1

\* Rest mode.
loopRest(s) ==
  IF s.inRest /\ s.oledInitialized /\ ~s.i2cBusy /\ ~s.isShowingNFC
  THEN IF s.now - s.restStartMillis >= restDuration
       THEN Ev([s EXCEPT !.inRest = FALSE, !.lastActivityTime = s.now],
               "restEnd")
       ELSE Ev(s, "displayRest")
  ELSE s

\* loop() with the light logic ahead of the tag detection
loopLightFirst(s, lightValue, tag) ==
  LET sl == shouldEnterSleep(s, lightValue)
  IN IF sl.ret THEN enterSmartSleep(sl.s)
     ELSE LET d == loopNFCDisplay(loopNFC(loopLight(sl.s, lightValue), tag))
          IN IF d.ret THEN d.s ELSE loopRest(d.s)

\* One pass of loop() with the light sample read and the tag on the reader.
loop(s, lightValue, tag) ==
  LET sl == shouldEnterSleep(s, lightValue)
  IN IF sl.ret THEN enterSmartSleep(sl.s)
     ELSE LET d == loopNFCDisplay(loopNFC(sl.s, tag))
          IN IF d.ret THEN d.s ELSE loopRest(loopLight(d.s, lightValue))

\* ------------------------------------------------------------------- setup
\* RAM after setup(): globals at their initial values, books and timer
\* loaded from flash.  oledOK, nfcOK: what the hardware answers to the
\* initialisation; cause: esp_sleep_get_wakeup_cause().
setup(bp, p, oledOK, nfcOK, cause, pins) ==
  [ books |-> initializeBooks(bp), bookPrefs |-> bp, prefs |-> p,
    currentBookIndex |-> -1, currentBookUID |-> "",
    bookChanged |-> FALSE, lastUID |-> "",
    nfcInitialized |-> nfcOK, oledInitialized |-> oledOK,
    i2cBusy |-> FALSE, isShowingNFC |-> FALSE,
    nfcDisplayStartTime |-> 0, lastActivityTime |-> SetupMillis,
    isReading |-> FALSE, isPaused |-> FALSE, inRest |-> FALSE,
    sessionStartMillis |-> 0, accumulatedSessionMillis |-> 0,
    restStartMillis |-> 0,
    totalReadingSeconds |-> PrefGet(p, "totalSecs", 0),
    adaptivePomodoroMillis |-> PrefGet(p, "pomodoro", defaultPomodoroMin * 60000),
    adaptiveTotalSessionTime |-> PrefGet(p, "adaptTime", ulong(0)),
    adaptiveSessionCount |-> PrefGet(p, "adaptCount", 0),
    systemStartTime |-> -1, lowLightCount |-> 0,
    lastCheck |-> 0, lastNFCCheck |-> 0,
    now |-> SetupMillis, power |-> "awake", wireActive |-> TRUE,
    wakeSources |-> {}, wakeup_cause |-> cause, ext1Status |-> pins,
    wakeReason |-> IF cause # "UNDEFINED"
                   THEN getWakeupReason(cause, pins) ELSE "none",
    events |-> << >> ]

\* ------------------------------------------------------- persistent storage
\* A device never used: both namespaces empty.
FreshBookPrefs == [count |-> 0, slot |-> [i \in BookIdx |-> NoKey]]
FreshPrefs == [k \in {} |-> 0]

\* A device in use: n books registered, the first one read in twenty
\* five-minute sessions that ended in sleep, the target at its floor.
UidOf == << "u01", "u02", "u03", "u04", "u05", "u06", "u07", "u08", "u09",
            "u12" >>
UsedBookPrefs(n) ==
  [count |-> n,
   slot |-> [i \in BookIdx |->
      IF i < n
      THEN [present |-> TRUE, uid |-> UidOf[i + 1],
            name |-> generateBookName(UidOf[i + 1]),
            total |-> IF i = 0 THEN 6000 ELSE 0,
            last |-> IF i = 0 THEN 300 ELSE 0,
            sessions |-> IF i = 0 THEN 20 ELSE 0,
            pomodoros |-> 0, avg |-> ZeroAvg]
      ELSE NoKey]]
UsedPrefs == [pomodoro |-> MIN_POMODORO_MILLIS, adaptTime |-> ulong(6000000),
              adaptCount |-> 20, totalSecs |-> 6000, lastBookIdx |-> 0,
              lastUID |-> "u01"]

\* The devices explored: flash contents and which peripherals answer.
Devices ==
  { [bp |-> FreshBookPrefs, p |-> FreshPrefs, oled |-> TRUE, nfc |-> TRUE],
    [bp |-> UsedBookPrefs(MAX_BOOKS - 1), p |-> UsedPrefs,
     oled |-> TRUE, nfc |-> TRUE],
    [bp |-> UsedBookPrefs(MAX_BOOKS), p |-> UsedPrefs,
     oled |-> TRUE, nfc |-> TRUE],
    [bp |-> UsedBookPrefs(MAX_BOOKS - 1), p |-> UsedPrefs,
     oled |-> FALSE, nfc |-> TRUE],
    [bp |-> UsedBookPrefs(MAX_BOOKS - 1), p |-> UsedPrefs,
     oled |-> TRUE, nfc |-> FALSE] }

AllUids == TagInputs \cup {UidOf[k] : k \in 1 .. Len(UidOf)}

\* wall-clock reading time already behind the persisted totals
WallOf(bp) == [u \in AllUids |->
  LET hits == {i \in BookIdx : bp.slot[i].present /\ bp.slot[i].uid = u}
  IN IF hits = {} THEN 0 ELSE 1000 * bp.slot[CHOOSE i \in hits : TRUE].total]

\* ----------------------------------------------------------- specification
InitAs(s) ==
  /\ books = s.books /\ bookPrefs = s.bookPrefs /\ prefs = s.prefs
  /\ currentBookIndex = s.currentBookIndex
  /\ currentBookUID = s.currentBookUID
  /\ bookChanged = s.bookChanged /\ lastUID = s.lastUID
  /\ nfcInitialized = s.nfcInitialized
  /\ oledInitialized = s.oledInitialized
  /\ i2cBusy = s.i2cBusy /\ isShowingNFC = s.isShowingNFC
  /\ nfcDisplayStartTime = s.nfcDisplayStartTime
  /\ lastActivityTime = s.lastActivityTime
  /\ isReading = s.isReading /\ isPaused = s.isPaused /\ inRest = s.inRest
  /\ sessionStartMillis = s.sessionStartMillis
  /\ accumulatedSessionMillis = s.accumulatedSessionMillis
  /\ restStartMillis = s.restStartMillis
  /\ totalReadingSeconds = s.totalReadingSeconds
  /\ adaptivePomodoroMillis = s.adaptivePomodoroMillis
  /\ adaptiveTotalSessionTime = s.adaptiveTotalSessionTime
  /\ adaptiveSessionCount = s.adaptiveSessionCount
  /\ systemStartTime = s.systemStartTime
  /\ lowLightCount = s.lowLightCount
  /\ lastCheck = s.lastCheck /\ lastNFCCheck = s.lastNFCCheck
  /\ now = s.now /\ power = s.power /\ wireActive = s.wireActive
  /\ wakeSources = s.wakeSources /\ wakeup_cause = s.wakeup_cause
  /\ ext1Status = s.ext1Status
  /\ wakeReason = s.wakeReason /\ events = s.events

Init ==
  \E d \in Devices :
    /\ InitAs(setup(d.bp, d.p, d.oled, d.nfc, "UNDEFINED", {}))
    /\ ldr \in LightSamples
    /\ tagOnReader \in TagInputs \cup {NoTag}
    /\ ticks = 0 /\ envChanges = 0 /\ adjustCalls = 0 /\ sessionArg = 0
    /\ readingWall = WallOf(d.bp)

Effort == ticks + ChangeCost * envChanges

\* One pass of loop(), dt after the previous one.
Tick ==
  /\ power = "awake"
  /\ Effort < MaxEffort
  /\ \E dt \in TickDurations :
       /\ Install(loop([Cur EXCEPT !.now = now + dt, !.events = << >>],
                       ldr, tagOnReader))
       /\ readingWall' =
            IF currentBookIndex >= 0 /\ (isReading \/ isPaused)
            THEN [readingWall EXCEPT ![currentBookUID] = @ + dt]
            ELSE readingWall
  /\ ticks' = ticks + 1
  /\ UNCHANGED << ldr, tagOnReader, envChanges, adjustCalls, sessionArg >>

\* The light on the sensor changes between two passes.
LightChanges ==
  /\ power = "awake"
  /\ Effort + ChangeCost <= MaxEffort
  /\ \E v \in LightSamples \ {ldr} : ldr' = v
  /\ envChanges' = envChanges + 1
  /\ Install(Cur)
  /\ UNCHANGED << tagOnReader, ticks, readingWall, adjustCalls, sessionArg >>

\* A tag is placed on the reader, removed from it or replaced.
TagChanges ==
  /\ power = "awake"
  /\ Effort + ChangeCost <= MaxEffort
  /\ \E u \in (TagInputs \cup {NoTag}) \ {tagOnReader} : tagOnReader' = u
  /\ envChanges' = envChanges + 1
  /\ Install(Cur)
  /\ UNCHANGED << ldr, ticks, readingWall, adjustCalls, sessionArg >>

\* The chip leaves deep sleep by one of the armed wake-up sources and runs
\* setup(); RAM is lost, flash is kept, the hardware answers as before.
\* a resume that takes the persisted last book as the current one
WakeRestoringLastBook ==
  /\ power = "deepSleep"
  /\ Effort + ChangeCost <= MaxEffort
  /\ \E cause \in wakeSources :
       Install([setup(bookPrefs, prefs, oledInitialized, nfcInitialized,
                      cause, {})
                  EXCEPT !.currentBookIndex = PrefGet(prefs, "lastBookIdx", -1),
                         !.currentBookUID = PrefGet(prefs, "lastUID", "")])
  /\ envChanges' = envChanges + 1
  /\ UNCHANGED << ldr, tagOnReader, ticks, readingWall, adjustCalls, sessionArg >>

Wake ==
  /\ power = "deepSleep"
  /\ Effort + ChangeCost <= MaxEffort
  /\ \E cause \in wakeSources :
       Install(setup(bookPrefs, prefs, oledInitialized, nfcInitialized,
                     cause, {}))
  /\ envChanges' = envChanges + 1
  /\ UNCHANGED << ldr, tagOnReader, ticks, readingWall, adjustCalls, sessionArg >>

Next == Tick \/ LightChanges \/ TagChanges \/ Wake

Spec == Init /\ [][Next]_vars

\* ------------------------------------------------- the adaptive timer alone
\* The lifetime total after 1193 sessions of 60 minutes: 4294800000 ms.
NearWrap == [hi |-> 65533, lo |-> 29312]

\* saveAdaptivePomodoro called with any sequence of session durations, from
\* any persisted target inside the bound, with or without a current book.
TimerPrefs == { [pomodoro |-> tg, adaptTime |-> h[1], adaptCount |-> h[2]] :
                tg \in {MIN_POMODORO_MILLIS, defaultPomodoroMin * 60000,
                        MAX_POMODORO_MILLIS},
                h \in {<< ulong(0), 0 >>, << ulong(6000000), 20 >>,
                       << NearWrap, 1193 >>} }

TimerInit ==
  /\ \E p \in TimerPrefs \cup {FreshPrefs}, attached \in BOOLEAN :
       LET s == setup(UsedBookPrefs(MAX_BOOKS - 1), p, TRUE, TRUE,
                      "UNDEFINED", {})
       IN InitAs(IF attached THEN [switchBook(s, "u01") EXCEPT !.events = << >>]
                 ELSE s)
  /\ ldr = 2000 /\ tagOnReader = NoTag
  /\ ticks = 0 /\ envChanges = 0 /\ adjustCalls = 0 /\ sessionArg = 0
  /\ readingWall = WallOf(UsedBookPrefs(MAX_BOOKS - 1))

Adjust ==
  /\ adjustCalls < MaxAdjust
  /\ \E d \in SessionDurations :
       /\ Install(saveAdaptivePomodoro([Cur EXCEPT !.events = << >>], d))
       /\ sessionArg' = d
  /\ adjustCalls' = adjustCalls + 1
  /\ UNCHANGED << ldr, tagOnReader, ticks, envChanges, readingWall >>

TimerNext == Adjust

TimerSpec == TimerInit /\ [][TimerNext]_vars

\* ------------------------------------------------- wake-up classification
\* The chip restarts for any cause; getWakeupReason reads the cause.
Restart ==
  /\ \E cause \in WakeupCauses :
       \E pins \in (IF cause = "EXT1" THEN (SUBSET Ext1Pins) \ {{}} ELSE {{}}) :
         Install(setup(bookPrefs, prefs, oledInitialized, nfcInitialized,
                       cause, pins))
  /\ UNCHANGED << ldr, tagOnReader, ticks, envChanges, readingWall,
                  adjustCalls, sessionArg >>

Classify ==
  /\ power = "awake"
  /\ Install([Ev([Cur EXCEPT !.events = << >>], "getWakeupReason") EXCEPT
                !.wakeReason = getWakeupReason(wakeup_cause, ext1Status)])
  /\ UNCHANGED << ldr, tagOnReader, ticks, envChanges, readingWall,
                  adjustCalls, sessionArg >>

WakeNext == Restart \/ Classify

WakeSpec == Init /\ [][WakeNext]_vars

\* ------------------------------------------------- passes in quick succession
\* The same program with the passes of loop() 1.5 s or 2.5 s apart: below
\* and above SLEEP_CHECK_INTERVAL, above the interval between two polls, and
\* several passes inside the grace period, the display timeout and the idle
\* timeout.
FineTick ==
  /\ power = "awake"
  /\ ticks < MaxFineTicks
  /\ \E dt \in FineDurations :
       /\ Install(loop([Cur EXCEPT !.now = now + dt, !.events = << >>],
                       ldr, tagOnReader))
       /\ readingWall' =
            IF currentBookIndex >= 0 /\ (isReading \/ isPaused)
            THEN [readingWall EXCEPT ![currentBookUID] = @ + dt]
            ELSE readingWall
  /\ ticks' = ticks + 1
  /\ UNCHANGED << ldr, tagOnReader, envChanges, adjustCalls, sessionArg >>

FineLightChanges ==
  /\ power = "awake"
  /\ envChanges < MaxFineChanges
  /\ \E v \in LightSamples \ {ldr} : ldr' = v
  /\ envChanges' = envChanges + 1
  /\ Install(Cur)
  /\ UNCHANGED << tagOnReader, ticks, readingWall, adjustCalls, sessionArg >>

FineTagChanges ==
  /\ power = "awake"
  /\ envChanges < MaxFineChanges
  /\ \E u \in (TagInputs \cup {NoTag}) \ {tagOnReader} : tagOnReader' = u
  /\ envChanges' = envChanges + 1
  /\ Install(Cur)
  /\ UNCHANGED << ldr, ticks, readingWall, adjustCalls, sessionArg >>

FineNext == FineTick \/ FineLightChanges \/ FineTagChanges

FineSpec == Init /\ [][FineNext]_vars

\* ------------------------------------------------- passes at the loop's pace
\* The same program with the passes of loop() 500 ms or 700 ms apart, the
\* pace that delay(500) at the end of loop() gives them.
PollTick ==
  /\ power = "awake"
  /\ ticks < MaxPollTicks
  /\ \E dt \in PollDurations :
       /\ Install(loop([Cur EXCEPT !.now = now + dt, !.events = << >>],
                       ldr, tagOnReader))
       /\ readingWall' =
            IF currentBookIndex >= 0 /\ (isReading \/ isPaused)
            THEN [readingWall EXCEPT ![currentBookUID] = @ + dt]
            ELSE readingWall
  /\ ticks' = ticks + 1
  /\ UNCHANGED << ldr, tagOnReader, envChanges, adjustCalls, sessionArg >>

PollTagChanges ==
  /\ power = "awake"
  /\ envChanges < MaxPollChanges
  /\ \E u \in (TagInputs \cup {NoTag}) \ {tagOnReader} : tagOnReader' = u
  /\ envChanges' = envChanges + 1
  /\ Install(Cur)
  /\ UNCHANGED << ldr, ticks, readingWall, adjustCalls, sessionArg >>

PollNext == PollTick \/ PollTagChanges

PollSpec == Init /\ [][PollNext]_vars

\* ------------------------------------------------- the loop running forever
\* loop() keeps being called for as long as the chip is awake.  Only the
\* differences between millis() and the stored timestamps are read by the
\* code, so the clock is kept at LiveHorizon and the timestamps are moved
\* with it; a timestamp older than LiveHorizon stays at that age, which is
\* beyond every timeout read while no session is timed.  The light never
\* reaches lightThreshold here, so no session is ever timed, and the tag on
\* the reader stays the one of the start; the one counter that still grows,
\* the session count that switchBook increments in memory, is folded at
\* LiveCountCap above its persisted value.
rebaseMillis(s) ==
  LET re(ts) == IF s.now - ts > LiveHorizon THEN 0
                ELSE LiveHorizon - (s.now - ts)
      fold(i, n) == IF n > s.bookPrefs.slot[i].sessions + LiveCountCap
                    THEN s.bookPrefs.slot[i].sessions + LiveCountCap ELSE n
  IN [s EXCEPT !.now = LiveHorizon,
               !.nfcDisplayStartTime = re(@),
               !.lastActivityTime = re(@),
               !.sessionStartMillis = re(@),
               !.restStartMillis = re(@),
               !.systemStartTime = IF @ = -1 THEN -1 ELSE re(@),
               !.lastCheck = re(@),
               !.lastNFCCheck = re(@),
               !.books = [i \in BookIdx |->
                            [@[i] EXCEPT !.sessionCount = fold(i, @)]]]

LiveInit ==
  \E d \in Devices :
    /\ InitAs(setup(d.bp, d.p, d.oled, d.nfc, "UNDEFINED", {}))
    /\ ldr \in LiveLightSamples
    /\ tagOnReader \in TagInputs \cup {NoTag}
    /\ ticks = 0 /\ envChanges = 0 /\ adjustCalls = 0 /\ sessionArg = 0
    /\ readingWall = WallOf(d.bp)

LiveTick ==
  /\ power = "awake"
  /\ \E dt \in LiveDurations :
       Install(rebaseMillis(loop([Cur EXCEPT !.now = now + dt,
                                             !.events = << >>],
                                 ldr, tagOnReader)))
  /\ ticks' = 1 - ticks
  /\ UNCHANGED << ldr, tagOnReader, envChanges, readingWall, adjustCalls,
                  sessionArg >>

LiveLightChanges ==
  /\ power = "awake"
  /\ \E v \in LiveLightSamples \ {ldr} : ldr' = v
  /\ Install(Cur)
  /\ UNCHANGED << tagOnReader, ticks, envChanges, readingWall, adjustCalls,
                  sessionArg >>

LiveWake ==
  /\ power = "deepSleep"
  /\ \E cause \in wakeSources :
       Install(setup(bookPrefs, prefs, oledInitialized, nfcInitialized,
                     cause, {}))
  /\ UNCHANGED << ldr, tagOnReader, ticks, envChanges, readingWall,
                  adjustCalls, sessionArg >>

LiveNext == LiveTick \/ LiveLightChanges \/ LiveWake

\* A pass of the loop, seen on the parity of the passes that LiveTick alone
\* changes: it is possible exactly when LiveTick is, and the chip keeps
\* calling loop() while it is awake.
LoopRuns == power = "awake" /\ ticks' = 1 - ticks

LiveSpec == LiveInit /\ [][LiveNext]_vars /\ WF_ticks(LoopRuns)

\* ---------------------------------------------------------------- properties
EvHas(evs, op) == \E k \in 1 .. Len(evs) : evs[k].op = op
EvAll(evs, op) == {k \in 1 .. Len(evs) : evs[k].op = op}
ActiveSlots == {i \in BookIdx : books[i].isActive}

\* C1: the adaptive target stays between 5 and 60 minutes after every
\* adjustment, whatever the session durations were, when it started inside
\* that interval.
TargetWithinBounds ==
  /\ 5 * 60 * 1000 <= adaptivePomodoroMillis
  /\ adaptivePomodoroMillis <= 60 * 60 * 1000

TargetClampedReached ==
  /\ adjustCalls >= 2
  /\ sessionArg = 7200000
  /\ EvHas(events, "adjustTimer")
  /\ adaptivePomodoroMillis = 60 * 60 * 1000

\* C2: a session shorter than 5 minutes handed to the timer leaves the
\* target, the total session time and the session count as they were, in
\* memory and in storage.
ShortSessionIgnored ==
  [][ (adjustCalls' = adjustCalls + 1 /\ sessionArg' < 5 * 60 * 1000)
      => /\ adaptivePomodoroMillis' = adaptivePomodoroMillis
         /\ adaptiveTotalSessionTime' = adaptiveTotalSessionTime
         /\ adaptiveSessionCount' = adaptiveSessionCount
         /\ prefs' = prefs /\ bookPrefs' = bookPrefs /\ books' = books ]_vars

ShortSessionReached ==
  /\ adjustCalls >= 2
  /\ sessionArg = 299999
  /\ adaptiveSessionCount > 0

\* C3: a switch to another book while reading adds the accumulated time
\* plus the running segment to the old book's total, and the new book's
\* session starts at zero.
SwitchWhileReading ==
  /\ power = "awake" /\ power' = "awake"
  /\ isReading /\ currentBookIndex >= 0
  /\ currentBookIndex' >= 0 /\ currentBookIndex' # currentBookIndex

SwitchCommitsRunningSession ==
  [][ SwitchWhileReading
      => /\ books'[currentBookIndex].totalSeconds =
              books[currentBookIndex].totalSeconds +
              (accumulatedSessionMillis + (now' - sessionStartMillis)) \div 1000
         /\ accumulatedSessionMillis' = 0
         /\ (isReading' => sessionStartMillis' = now') ]_vars

\* C4: the seconds committed to a book never exceed the wall-clock time the
\* device spent reading or paused with that book.
TotalWithinWallClock ==
  \A i \in ActiveSlots :
    1000 * books[i].totalSeconds <= readingWall[books[i].uid]

\* C5: a tag unknown to a full library is refused: the library answers
\* "full", no slot and no counter changes beyond the commit of the running
\* book, and the persisted number of books stays as it was.
UnknownTagOnFullLibrary ==
  /\ power = "awake" /\ ticks' = ticks + 1
  /\ ActiveSlots = BookIdx
  /\ tagOnReader # NoTag
  /\ findBookByUID(books, tagOnReader) = -1
  /\ EvHas(events', "readPassiveTargetID")

FullLibraryRefuses ==
  [][ UnknownTagOnFullLibrary
      => LET c == saveCurrentBookSession([Cur EXCEPT !.now = now'])
         IN /\ EvHas(events', "libraryFull")
            /\ ~EvHas(events', "addNewBook")
            /\ books' = c.books
            /\ bookPrefs' = c.bookPrefs
            /\ bookPrefs'.count = bookPrefs.count
            /\ \A i \in BookIdx : /\ books'[i].uid = books[i].uid
                                  /\ books'[i].name = books[i].name
                                  /\ books'[i].isActive
            /\ currentBookIndex' = currentBookIndex ]_vars

FullLibraryRefusedReached ==
  /\ EvHas(events, "libraryFull")
  /\ ActiveSlots = BookIdx
  /\ bookPrefs.count = MAX_BOOKS
  /\ tagOnReader # NoTag /\ findBookByUID(books, tagOnReader) = -1
  /\ currentBookIndex >= 0

\* C6: what is in memory when the device suspends is what is in memory after
\* it resumes: every book's seconds, session count and focus-cycle count,
\* and the adaptive target.
ResumeRestoresTotals ==
  [][ (power = "deepSleep" /\ power' = "awake")
      => /\ \A i \in BookIdx :
              /\ books'[i].isActive = books[i].isActive
              /\ books'[i].totalSeconds = books[i].totalSeconds
              /\ books'[i].sessionCount = books[i].sessionCount
              /\ books'[i].pomodoroCount = books[i].pomodoroCount
         /\ adaptivePomodoroMillis' = adaptivePomodoroMillis ]_vars

\* C7: a completed focus cycle adds exactly one to the focus-cycle count of
\* the current book.
CompletionCountsOnce ==
  [][ (isReading /\ ~inRest /\ inRest')
      => books'[currentBookIndex].pomodoroCount =
           books[currentBookIndex].pomodoroCount + 1 ]_vars

\* C8: when the device suspends with a session in progress, the persisted
\* seconds of the current book have grown by the accumulated time plus the
\* running segment, and the write happens before the bus is released and
\* before the chip is put to sleep.
SuspendWithSession ==
  /\ power = "awake" /\ power' = "deepSleep"
  /\ currentBookIndex >= 0 /\ (isReading \/ isPaused)

SuspendCommitsSession ==
  [][ SuspendWithSession
      => LET i == currentBookIndex
             running == IF isReading THEN now' - sessionStartMillis ELSE 0
             release == EvAll(events', "Wire.end")
             suspend == EvAll(events', "esp_deep_sleep_start")
         IN /\ bookPrefs'.slot[i].present
            /\ bookPrefs'.slot[i].total =
                 bookPrefs.slot[i].total +
                 (accumulatedSessionMillis + running) \div 1000
            /\ EvAll(events', "saveBookData") # {}
            /\ release # {} /\ suspend # {}
            /\ \A w \in EvAll(events', "saveBookData") :
                 /\ \A r \in release : w < r
                 /\ \A z \in suspend : w < z
            /\ \A r \in release : \A z \in suspend : r < z ]_vars

SuspendWithRunningSegmentReached ==
  /\ power = "deepSleep"
  /\ currentBookIndex >= 0 /\ isReading
  /\ accumulatedSessionMillis > 0
  /\ now - sessionStartMillis >= 1000
  /\ EvHas(events, "commitAtSleep")

WakeReasonFollowsCause ==
  EvHas(events, "getWakeupReason")
  => /\ (wakeup_cause = "EXT0" => wakeReason = "WAKEUP_LIGHT")
     /\ (wakeup_cause = "TIMER" => wakeReason = "WAKEUP_TIMER")
     /\ (wakeup_cause = "UNDEFINED" => wakeReason = "WAKEUP_UNKNOWN")
     /\ (wakeReason = "WAKEUP_TIMER" => wakeup_cause = "TIMER")
     /\ (wakeReason = "WAKEUP_LIGHT" => wakeup_cause \in {"EXT0", "EXT1"})
     /\ wakeReason = getWakeupReason(wakeup_cause, ext1Status)

WakeReasonClassifiedReached ==
  /\ EvHas(events, "getWakeupReason")
  /\ wakeup_cause = "TIMER"
  /\ wakeReason = "WAKEUP_TIMER"

\* C11: a poll that reads the identifier of the current book again, the tag
\* never having left the reader, is no event: no switchBook runs in that
\* pass.
SameTagPolled ==
  /\ power = "awake" /\ ticks' = ticks + 1
  /\ currentBookIndex >= 0
  /\ tagOnReader = currentBookUID
  /\ EvHas(events', "readPassiveTargetID")

SameTagIsNoEvent ==
  [][ SameTagPolled
      => /\ ~EvHas(events', "switchBook")
         /\ ~EvHas(events', "displayBookInfo") ]_vars

\* C12: at a focus-cycle completion the session is committed first, then the
\* timer is adjusted, then the focus-cycle counter is incremented, then rest
\* is entered.
CompletionInOrder ==
  [][ (isReading /\ ~inRest /\ inRest')
      => LET adjust == EvAll(events', "adjustTimer")
             count == EvAll(events', "pomodoroCount++")
             rest == EvAll(events', "enterRest")
         IN /\ \A c \in EvAll(events', "commitSession") :
                 \A a \in adjust : c < a
            /\ \A c \in EvAll(events', "commitSession") :
                 \A k \in count : c < k
            /\ \A a \in adjust : \A k \in count : a < k
            /\ \A k \in count : \A r \in rest : k < r ]_vars

\* C13: nothing is drawn on the display while the bus flag is set for a tag
\* poll.
DisplayOps == {"displayBookInfo", "displayLibraryFull", "displaySleep",
               "displayOff", "drawTrendGraph", "displayPlaceCard",
               "displayReading", "displayPomodoroDone", "displayRest"}

NoDisplayWhileBusy ==
  \A k \in 1 .. Len(events) :
    events[k].op \in DisplayOps => ~events[k].busy

\* C14: a tag identifier is held by at most one active record, in memory and
\* in storage.
UidHeldOnce ==
  /\ \A i, j \in ActiveSlots : books[i].uid = books[j].uid => i = j
  /\ \A i, j \in BookIdx :
       (bookPrefs.slot[i].present /\ bookPrefs.slot[j].present
        /\ bookPrefs.slot[i].uid = bookPrefs.slot[j].uid) => i = j

KnownTagFoundAgainReached ==
  /\ EvHas(events, "switchBook") /\ ~EvHas(events, "addNewBook")
  /\ currentBookIndex >= 1
  /\ books[currentBookIndex].uid = tagOnReader
  /\ bookPrefs.slot[currentBookIndex].sessions >= 1

\* C15: the persisted number of books is the number of active slots and is
\* at most MAX_BOOKS.
CountIsActiveSlots ==
  /\ bookPrefs.count = Cardinality(ActiveSlots)
  /\ bookPrefs.count <= 10

LastSlotFilledReached ==
  /\ EvHas(events, "addNewBook")
  /\ Cardinality(ActiveSlots) = MAX_BOOKS
  /\ currentBookIndex = MAX_BOOKS - 1

\* C16: a commit of the accumulated duration is followed, in the same pass,
\* by the zeroing of that duration or by the suspend, so that no duration is
\* committed twice.
CommitClosesSession ==
  [][ (power = "awake" /\ EvHas(events', "commitSession"))
      => (accumulatedSessionMillis' = 0 \/ power' = "deepSleep") ]_vars

\* C17: the darkness trigger is debounced.  A pass suspends on the darkness
\* path only when this check and the SLEEP_CHECK_COUNT - 1 checks before it
\* were below bookmarkThreshold: the count grows by one per dark check, a
\* pass that starts with a count of zero suspends only by the idle timeout,
\* and a check in sufficient light, or a pass in reading, rest or tag
\* display, leaves the count at zero.
DarknessDebounced ==
  [][ (power = "awake" /\ ticks' = ticks + 1)
      => LET active == isShowingNFC \/ isReading \/ inRest
             checked == lastCheck' = now' /\ ~active
         IN /\ EvHas(events', "prolongedLowLight")
                 => /\ checked /\ ldr < bookmarkThreshold
                    /\ lowLightCount = 2 - 1 /\ lowLightCount' = 2
            /\ (power' = "deepSleep" /\ ~EvHas(events', "idleTimeout"))
                 => EvHas(events', "prolongedLowLight")
            /\ (lowLightCount = 0 /\ power' = "deepSleep")
                 => EvHas(events', "idleTimeout")
            /\ lowLightCount' \in {0, lowLightCount, lowLightCount + 1}
            /\ lowLightCount' = lowLightCount + 1
                 => (checked /\ ldr < bookmarkThreshold)
            /\ (power' = "awake"
                /\ ((checked /\ ldr >= bookmarkThreshold) \/ active))
                 => lowLightCount' = 0 ]_vars

DarknessSleepReached ==
  /\ power = "deepSleep"
  /\ EvHas(events, "prolongedLowLight")
  /\ lowLightCount = SLEEP_CHECK_COUNT

\* C18: when no tag is read and nothing is being read for longer than the
\* idle timeout, the device suspends, whatever the light is.
IdleSuspends ==
  []( [](tagOnReader = NoTag /\ ~isReading /\ ~inRest /\ ~isShowingNFC)
      => <>(power = "deepSleep") )

\* C19: with no switch, completion or suspend in the pass, a pause adds the
\* running segment to the accumulated duration, a resume starts a new
\* segment at the time of the pass and keeps the accumulated duration, and a
\* pass that stays in reading or stays paused changes neither: the session
\* duration is the time spent reading.
QuietPass ==
  /\ power = "awake" /\ power' = "awake" /\ ticks' = ticks + 1
  /\ currentBookIndex >= 0
  /\ ~EvHas(events', "switchBook") /\ ~EvHas(events', "libraryFull")
  /\ ~EvHas(events', "enterRest")

SessionIsReadingTime ==
  [][ QuietPass
      => /\ (isReading /\ ~isReading')
              => /\ isPaused'
                 /\ accumulatedSessionMillis' =
                      accumulatedSessionMillis + (now' - sessionStartMillis)
         /\ (~isReading /\ isReading')
              => /\ sessionStartMillis' = now'
                 /\ accumulatedSessionMillis' = accumulatedSessionMillis
         /\ (isReading = isReading')
              => /\ accumulatedSessionMillis' = accumulatedSessionMillis
                 /\ sessionStartMillis' = sessionStartMillis ]_vars

ResumedAfterPauseReached ==
  /\ isReading /\ ~isPaused
  /\ EvHas(events, "startReading")
  /\ accumulatedSessionMillis > 0
  /\ sessionStartMillis = now

\* C20: the completion of a focus cycle commits the whole session to the
\* current book: its seconds grow by the accumulated duration plus the
\* running segment, its session count by one, and the accumulated duration
\* is zero afterwards.
CompletionCommitsWholeSession ==
  [][ (isReading /\ ~inRest /\ inRest')
      => LET i == currentBookIndex
             session == accumulatedSessionMillis + (now' - sessionStartMillis)
         IN /\ books'[i].totalSeconds =
                 books[i].totalSeconds + session \div 1000
            /\ books'[i].sessionCount = books[i].sessionCount + 1
            /\ accumulatedSessionMillis' = 0 ]_vars

\* A pass of loop() after which the chip is still awake.
AwakePass == power = "awake" /\ power' = "awake" /\ ticks' = ticks + 1

DisplaylessStillTransitions ==
  [][ (AwakePass /\ ~oledInitialized /\ ~isShowingNFC')
      => /\ (isReading /\ ldr >= lightThreshold
               /\ now' - sessionStartMillis + accumulatedSessionMillis
                    >= adaptivePomodoroMillis)
            => (inRest' /\ ~isReading')
         /\ (inRest /\ now' - restStartMillis >= restDuration)
            => ~inRest' ]_vars

\* C23: a switch to a different book while Resting ends the rest in the pass
\* that detects the tag, whatever remains of the rest duration, so that a
\* session of the detected book can start.
SwitchCancelsRest ==
  [][ (AwakePass /\ inRest /\ EvHas(events', "switchBook")
         /\ currentBookUID' # currentBookUID)
      => ~inRest' ]_vars

TagBeforeLight ==
  [][ (AwakePass /\ nfcInitialized /\ ~i2cBusy
         /\ now' - lastNFCCheck > NFC_CHECK_INTERVAL
         /\ tagOnReader # NoTag /\ tagOnReader # currentBookUID
         /\ ldr < lightThreshold)
      => /\ \/ EvHas(events', "switchBook") /\ currentBookUID' = tagOnReader
            \/ EvHas(events', "libraryFull")
         /\ \A k \in EvAll(events', "pause") :
              \A j \in EvAll(events', "switchBook") \cup
                       EvAll(events', "libraryFull") : j < k ]_vars

\* a new book was registered in a pass whose light sample was counted as dark
SwitchedInTheDarkReached ==
  /\ EvHas(events, "lowLight") /\ EvHas(events, "addNewBook")
  /\ EvHas(events, "switchBook") /\ currentBookUID = tagOnReader
  /\ ldr < lightThreshold

\* C26: a pass polls the reader at most once, and only when the reader is
\* available, the bus flag is clear and more than NFC_CHECK_INTERVAL has
\* passed since the previous poll, whose time lastNFCCheck keeps; a pass that
\* does not poll leaves that time alone, so a skipped poll is not made up.
PollsRateLimited ==
  [][ (power = "awake" /\ ticks' = ticks + 1)
      => /\ Cardinality(EvAll(events', "readPassiveTargetID")) <= 1
         /\ EvHas(events', "readPassiveTargetID")
            => /\ nfcInitialized /\ ~i2cBusy
               /\ now' - lastNFCCheck > NFC_CHECK_INTERVAL
               /\ lastNFCCheck' = now'
         /\ ~EvHas(events', "readPassiveTargetID")
            => lastNFCCheck' = lastNFCCheck ]_vars

\* a pass skipped its poll because the previous one was too recent
PollSkippedReached ==
  /\ power = "awake" /\ nfcInitialized /\ ~i2cBusy
  /\ ~EvHas(events, "readPassiveTargetID")
  /\ lastNFCCheck > 0 /\ now - lastNFCCheck > 0
  /\ now - lastNFCCheck <= NFC_CHECK_INTERVAL

CommitCountsOneSession ==
  [][ (power = "awake" /\ ticks' = ticks + 1 /\ currentBookIndex >= 0
         /\ (EvHas(events', "commitSession") \/ EvHas(events', "commitAtSleep")))
      => LET b == books[currentBookIndex]
             c == books'[currentBookIndex]
         IN /\ c.totalSeconds >= b.totalSeconds
            /\ c.sessionCount = b.sessionCount + 1
            /\ c.avgSessionMinutes.num * 60 * c.sessionCount
                 = c.totalSeconds * c.avgSessionMinutes.den ]_vars

\* C29: between two passes every active book's persisted seconds, session
\* count, focus-cycle count and average are the ones in memory.
WriteThrough ==
  \A i \in BookIdx :
    books[i].isActive
    => /\ bookPrefs.slot[i].present
       /\ bookPrefs.slot[i].total = books[i].totalSeconds
       /\ bookPrefs.slot[i].sessions = books[i].sessionCount
       /\ bookPrefs.slot[i].pomodoros = books[i].pomodoroCount
       /\ bookPrefs.slot[i].avg = books[i].avgSessionMinutes

\* C30: an adjustment for a session of at least 5 minutes that reached the
\* target never lowers the target: the new target is the old one times 1.05
\* when the session is at least 1.2 times the target, times 1.02 otherwise,
\* truncated to a whole millisecond and clamped to 5..60 minutes.
GrowthByRatio ==
  [][ (adjustCalls' = adjustCalls + 1 /\ sessionArg' >= MIN_SESSION_MILLIS
         /\ sessionArg' >= adaptivePomodoroMillis)
      => LET target == adaptivePomodoroMillis
             grown == IF 5 * sessionArg' >= 6 * target
                      THEN (target * 105) \div 100
                      ELSE (target * 102) \div 100
         IN /\ adaptivePomodoroMillis' >= target
            /\ adaptivePomodoroMillis' =
                 constrain(grown, MIN_POMODORO_MILLIS, MAX_POMODORO_MILLIS) ]_vars

\* A call of saveAdaptivePomodoro with a session that passes its filter.
SignificantAdjust ==
  adjustCalls' = adjustCalls + 1 /\ sessionArg' >= MIN_SESSION_MILLIS

\* C31: for a session of at least 5 minutes, saveAdaptivePomodoro adds one
\* to the lifetime session count and the session (in 32 bits) to the
\* lifetime total before it chooses the tier, so that below the target the
\* new target is, within the 1 ms of the float sum, the blend of the old
\* target with the average that includes this session; the target, the total
\* and the count are all put to storage in the same call.
LifetimeIncludesSession ==
  [][ SignificantAdjust
      => LET target == adaptivePomodoroMillis
             avg == ulongQuotient(adaptiveTotalSessionTime',
                                  adaptiveSessionCount')
             goal == IF 5 * sessionArg' >= 4 * target THEN avg
                     ELSE IF 5 * sessionArg' >= 3 * target
                          THEN (avg * 8) \div 10
                     ELSE (avg * 7) \div 10
             blended == constrain((15 * goal + 85 * target) \div 100,
                                  MIN_POMODORO_MILLIS, MAX_POMODORO_MILLIS)
         IN /\ adaptiveSessionCount' = adaptiveSessionCount + 1
            /\ adaptiveTotalSessionTime' =
                 ulongPlus(adaptiveTotalSessionTime, sessionArg')
            /\ sessionArg' < target
               => /\ adaptivePomodoroMillis' - blended <= 1
                  /\ blended - adaptivePomodoroMillis' <= 1
            /\ prefs'.pomodoro = adaptivePomodoroMillis'
            /\ prefs'.adaptTime = adaptiveTotalSessionTime'
            /\ prefs'.adaptCount = adaptiveSessionCount' ]_vars

\* a 1000 s session against a 25-minute target, after twenty sessions of
\* 300 s: the average with this session is 333333 ms
BlendedWithNewAverageReached ==
  /\ adjustCalls >= 1
  /\ sessionArg = 1000000
  /\ EvHas(events, "adjustTimer")
  /\ adaptiveSessionCount = 21
  /\ adaptiveTotalSessionTime = ulong(7000000)
  /\ adaptivePomodoroMillis = 1314999
  /\ prefs.adaptCount = 21 /\ prefs.adaptTime = ulong(7000000)

\* the place of the first operation op in a pass that has it
EvFirst(evs, op) == CHOOSE k \in 1 .. Len(evs) :
                      evs[k].op = op /\ \A j \in 1 .. k - 1 : evs[j].op # op

\* C32: every pass that ends in deep sleep has, in this order, ended the
\* shared bus (after switching an available display off), configured the
\* wake sources and called esp_deep_sleep_start as its last operation, and
\* the device sleeps with exactly the light pin and the timer armed.
SleepsWithBothWakeSources ==
  [][ (power = "awake" /\ power' = "deepSleep")
      => /\ wakeSources' = {"EXT0", "TIMER"}
         /\ ~wireActive'
         /\ EvHas(events', "Wire.end")
         /\ EvHas(events', "configureWakeupSources")
         /\ oledInitialized => /\ EvHas(events', "displayOff")
                               /\ EvFirst(events', "displayOff")
                                    < EvFirst(events', "Wire.end")
         /\ EvFirst(events', "Wire.end")
              < EvFirst(events', "configureWakeupSources")
         /\ EvFirst(events', "configureWakeupSources") = Len(events') - 1
         /\ events'[Len(events')].op = "esp_deep_sleep_start" ]_vars

\* the device asleep after a pass that committed a session
AsleepWithBothSourcesReached ==
  /\ power = "deepSleep"
  /\ wakeSources = {"EXT0", "TIMER"}
  /\ ~wireActive
  /\ EvHas(events, "commitAtSleep")
  /\ events[Len(events)].op = "esp_deep_sleep_start"

\* shouldEnterSleep returned true in this pass
SleepDecided(evs) == EvHas(evs, "idleTimeout") \/ EvHas(evs, "prolongedLowLight")

\* C33: a pass in which shouldEnterSleep returns true ends in the suspend
\* call, with or without a display, a tag reader, a current book or a
\* session: the device is asleep, esp_deep_sleep_start is the last operation
\* of the pass and the pass polls no tag and evaluates no light afterwards.
SleepDecisionSuspends ==
  [][ (power = "awake" /\ ticks' = ticks + 1 /\ SleepDecided(events'))
      => /\ power' = "deepSleep"
         /\ events'[Len(events')].op = "esp_deep_sleep_start"
         /\ ~EvHas(events', "readPassiveTargetID")
         /\ isReading' = isReading /\ isPaused' = isPaused
         /\ inRest' = inRest ]_vars

\* asleep from a paused session on a device whose display never answered
AsleepWithoutDisplayReached ==
  /\ power = "deepSleep"
  /\ ~oledInitialized
  /\ isPaused
  /\ SleepDecided(events)
  /\ EvHas(events, "commitAtSleep")
  /\ events[Len(events)].op = "esp_deep_sleep_start"

\* C34: while isReading is set, currentBookIndex is the slot of an active
\* record whose uid is currentBookUID; while there is no current book no
\* session runs, is paused or has accumulated any duration.
ReadingHasCurrentBook ==
  /\ isReading => /\ currentBookIndex \in BookIdx
                  /\ books[currentBookIndex].isActive
                  /\ books[currentBookIndex].uid = currentBookUID
  /\ currentBookIndex < 0 => /\ ~isReading /\ ~isPaused
                             /\ accumulatedSessionMillis = 0

\* reading the first book while the tag of a book the full library cannot
\* take lies on the reader
ReadingBesideUnknownTagReached ==
  /\ power = "awake"
  /\ isReading
  /\ currentBookIndex = 0 /\ currentBookUID = "u01"
  /\ tagOnReader = "u10" /\ lastUID = "u10"
  /\ \A i \in BookIdx : books[i].isActive /\ books[i].uid # "u10"

\* C35: no reachable state has two of isReading, isPaused and inRest set.
AtMostOneSessionFlag ==
  /\ ~(isReading /\ isPaused)
  /\ ~(isReading /\ inRest)
  /\ ~(isPaused /\ inRest)

\* resting after a completion, in the pass that entered the rest
RestingAloneReached ==
  /\ power = "awake"
  /\ inRest /\ ~isReading /\ ~isPaused
  /\ EvHas(events, "enterRest")
  /\ currentBookIndex >= 0

\* C36: every resume from deep sleep, whatever the wake reason and whatever
\* last book index is in storage, leaves no current book, no accumulated
\* duration and none of the session flags set, and while there is no current
\* book no step changes the reading time of a book or the overall total.
ResumeStartsWithoutBook ==
  [][ /\ (power = "deepSleep" /\ power' = "awake")
         => /\ currentBookIndex' = -1 /\ currentBookUID' = ""
            /\ accumulatedSessionMillis' = 0
            /\ ~isReading' /\ ~isPaused' /\ ~inRest'
      /\ (currentBookIndex' = -1)
         => /\ ~isReading' /\ ~isPaused' /\ ~inRest'
            /\ power = "awake"
               => /\ totalReadingSeconds' = totalReadingSeconds
                  /\ \A i \in BookIdx :
                       books'[i].totalSeconds = books[i].totalSeconds ]_vars

\* awake again in sufficient light with the first book persisted as the
\* last one, asking for a tag
ResumedWithoutBookReached ==
  /\ power = "awake"
  /\ wakeReason \in {"WAKEUP_LIGHT", "WAKEUP_TIMER"}
  /\ "lastBookIdx" \in DOMAIN prefs /\ prefs.lastBookIdx = 0
  /\ currentBookIndex = -1
  /\ ldr >= lightThreshold
  /\ ~isReading
  /\ EvHas(events, "displayPlaceCard")

LifetimeTotalNeverWraps ==
  [][ SignificantAdjust
      => /\ \/ adaptiveTotalSessionTime'.hi > adaptiveTotalSessionTime.hi
            \/ /\ adaptiveTotalSessionTime'.hi = adaptiveTotalSessionTime.hi
               /\ adaptiveTotalSessionTime'.lo >= adaptiveTotalSessionTime.lo
         /\ ulongQuotient(adaptiveTotalSessionTime', adaptiveSessionCount')
              >= MIN_SESSION_MILLIS ]_vars

\* C39: i2cBusy is false whenever a pass has ended, whichever way the tag
\* poll went: the flag set for the poll is cleared in the same pass.
BusyClearedEveryPass ==
  [][ /\ ~i2cBusy'
      /\ (ticks' = ticks + 1 /\ EvHas(events', "readPassiveTargetID"))
         => /\ \E k \in 1 .. Len(events') : events'[k].busy
            /\ lastNFCCheck' = now' ]_vars

\* a pass that polled, found a tag the full library cannot take and ended
\* with the flag cleared
BusyClearedOnFullLibraryReached ==
  /\ power = "awake"
  /\ EvHas(events, "readPassiveTargetID")
  /\ EvHas(events, "displayLibraryFull")
  /\ \E k \in 1 .. Len(events) : events[k].busy
  /\ ~i2cBusy

====
